---- MODULE Spec2Model ----
(***************************************************************************)
(* Retrieval subsystem of the QA chatbot: the Retriever of                 *)
(* app/retriever.py (index + metadata, load / save / reset / add /         *)
(* search) over a two-file disk, the character chunker chunk_text of       *)
(* app/ingest.py, and the /upload and /ask handlers of app/main.py that    *)
(* share one Retriever.                                                    *)
(*                                                                         *)
(* Vectors are tuples of integers, positions are 0-based as in FAISS, and  *)
(* every file operation has the outcomes the code's try/except blocks      *)
(* distinguish.                                                            *)
(***************************************************************************)
EXTENDS Integers, Sequences, FiniteSets, TLC

\* ------------------------------------------------------------------ bounds
MaxDocs == 2        \* most vectors the index is grown to
MaxBatch == 2       \* most texts in one add_documents call
MaxTopK == 3        \* largest top_k asked of search
MaxTextLen == 5     \* longest text given to chunk_text
MaxChunkSize == 4   \* largest chunk_size given to chunk_text
MaxChunks == 7      \* loop iterations of chunk_text that are followed

\* ------------------------------------------------------------- input sets
Docs == {<<"t1", "s1">>, <<"t2", "s2">>}   \* the chunks that exist: <<text, source file>>
Queries == {"q"}                            \* nearer to "t2" than to "t1"
ModelDims == {2, 3}            \* get_sentence_embedding_dimension() per model
Chars == {"a", "b"}

VARIABLES
    faiss,       \* TRUE iff `import faiss` succeeded (module level)
    pc,          \* "down": no Retriever; "up": constructed; "failed": __init__ raised
    dim,         \* self.dim
    index,       \* self.index: [d, vecs]
    metadatas,   \* self.metadatas: sequence of [text, source]
    indexFile,   \* the file at index_path: [kind, d, vecs]
    metaFile,    \* the file at meta_path: [kind, recs]
    lastOp,      \* the call that ran last, with its arguments and I/O outcomes
    raised,      \* TRUE iff the last call raised to its caller
    hits,        \* (D[0], I[0]) of the last search: sequence of <<score, idx>>
    results,     \* the list the last search returned
    added,       \* history: the <<text, source>> arguments added since the service was last empty
    clean,       \* history: the service was created empty and only grown by add_documents
    saved,       \* history: "add" after an add_documents, then "ok" / "bad" once save()
                 \* ran with both writes done / not, while memory is still that state
    text, chunk_size, overlap, start, chunks, cpc,  \* chunk_text's arguments and locals
    req,         \* the requests in flight: each handler call's arguments, locals and position
    loop         \* the request whose handler the event loop is running; 0 when it runs none

rvars == <<faiss, pc, dim, index, metadatas, indexFile, metaFile, lastOp, raised,
           hits, results, added, clean, saved>>
cvars == <<text, chunk_size, overlap, start, chunks, cpc>>
hvars == <<req, loop>>
vars == <<rvars, cvars, hvars>>

\* ------------------------------------------------------------ embeddings
\* SentenceTransformer.encode of one string, for a model of dimension d: a
\* fixed vector per string, its first coordinate telling the strings apart.
Coord(t) == CASE t = "t1" -> 0 [] t = "t2" -> 3 [] t = "q" -> 2 [] OTHER -> 7

Embed(t, d) == [i \in 1..d |-> IF i = 1 THEN Coord(t) ELSE 1]

\* model.encode(texts, convert_to_numpy=True) followed by the batch-dimension
\* fix: an empty list encodes to shape (0,), which expand_dims turns into one
\* row of width 0.
encode(texts, d) ==
    IF texts = <<>> THEN << <<>> >>
    ELSE [i \in 1..Len(texts) |-> Embed(texts[i], d)]

\* ------------------------------------------------------------ FAISS index
None == [d |-> -1, vecs |-> <<>>]

IndexFlatL2(d) == [d |-> d, vecs |-> <<>>]

\* index.add(x) asserts x.shape[1] == index.d
AddFits(ix, embs) == \A i \in 1..Len(embs) : Len(embs[i]) = ix.d

\* An add that puts the new vectors in front of the stored ones.
IndexAdd_front(ix, embs) == [ix EXCEPT !.vecs = embs \o @]

IndexAdd(ix, embs) == [ix EXCEPT !.vecs = @ \o embs]

RECURSIVE SumSq(_, _, _)
SumSq(u, v, i) ==
    IF i > Len(u) THEN 0
    ELSE (u[i] - v[i]) * (u[i] - v[i]) + SumSq(u, v, i + 1)

L2(u, v) == SumSq(u, v, 1)

\* The positions of P in ascending (distance, position) order.
Nearer(ix, q, a, b) ==
    \/ L2(ix.vecs[a + 1], q) < L2(ix.vecs[b + 1], q)
    \/ L2(ix.vecs[a + 1], q) = L2(ix.vecs[b + 1], q) /\ a < b

RECURSIVE Ranked(_, _, _)
Ranked(ix, q, P) ==
    IF P = {} THEN <<>>
    ELSE LET best == CHOOSE a \in P : \A b \in P \ {a} : Nearer(ix, q, a, b)
         IN  <<best>> \o Ranked(ix, q, P \ {best})

FltMax == 1000 * 1000

\* index.search(q, k) on a flat L2 index: the k nearest as (distance, position),
\* ascending, padded with (FltMax, -1) when the index holds fewer than k.
IndexSearch(ix, q, k) ==
    LET order == Ranked(ix, q, 0..(Len(ix.vecs) - 1))
    IN  [j \in 1..k |->
            IF j <= Len(order)
            THEN <<L2(ix.vecs[order[j] + 1], q), order[j]>>
            ELSE <<FltMax, -1>>]

\* --------------------------------------------------------------- the disk
Absent == "absent"
Corrupt == "corrupt"
Valid == "valid"

NoIndexFile == [kind |-> Absent, d |-> 0, vecs |-> <<>>]
BadIndexFile == [kind |-> Corrupt, d |-> 0, vecs |-> <<>>]
NoMetaFile == [kind |-> Absent, recs |-> <<>>]
BadMetaFile == [kind |-> Corrupt, recs |-> <<>>]

\* os.path.exists
exists(f) == f.kind # Absent

\* faiss.read_index(path): the stored index, or an exception when the file
\* cannot be read as one (kind Corrupt: damaged, truncated or unreadable).
read_index(f) ==
    IF f.kind = Valid
    THEN [exc |-> FALSE, ix |-> [d |-> f.d, vecs |-> f.vecs]]
    ELSE [exc |-> TRUE, ix |-> None]

\* json.load(open(path)): the stored list, or an exception.
json_load(f) ==
    IF f.kind = Valid
    THEN [exc |-> FALSE, recs |-> f.recs]
    ELSE [exc |-> TRUE, recs |-> <<>>]

\* faiss.write_index / json.dump into open(path, "w"): "ok" replaces the file,
\* "fail" raises before the file is touched, "partial" raises after it was
\* truncated or half written.
WriteOutcomes == {"ok", "fail", "partial"}
RemoveOutcomes == {"ok", "fail"}

write_index(f, ix, w) ==
    CASE w = "ok" -> [kind |-> Valid, d |-> ix.d, vecs |-> ix.vecs]
      [] w = "fail" -> f
      [] OTHER -> BadIndexFile

json_dump(f, recs, w) ==
    CASE w = "ok" -> [kind |-> Valid, recs |-> recs]
      [] w = "fail" -> f
      [] OTHER -> BadMetaFile

\* ---------------------------------------------------------- Retriever._load
\* LoadIndex that drops what it read.
LoadIndex_dropped(f, fa) == None

\* The index half of _load: self.index after the first block.
LoadIndex(f, fa) ==
    IF exists(f) /\ fa
    THEN LET r == read_index(f) IN IF r.exc THEN None ELSE r.ix
    ELSE None

\* The metadata half of _load: self.metadatas after the second block
\* (__init__ set it to [] before).
LoadMeta(f) ==
    IF exists(f)
    THEN LET r == json_load(f) IN IF r.exc THEN <<>> ELSE r.recs
    ELSE <<>>

\* _load without its try/except blocks: a failed read propagates.
_load_nocatch(fIdx, fMeta, fa, d) ==
    LET ri == read_index(fIdx)
        rm == json_load(fMeta)
        ix == IF exists(fIdx) /\ fa THEN ri.ix ELSE None
        m == IF exists(fMeta) THEN rm.recs ELSE <<>>
    IN  IF \/ exists(fIdx) /\ fa /\ ri.exc
           \/ exists(fMeta) /\ rm.exc
           \/ ix = None /\ ~fa
        THEN [exc |-> TRUE, index |-> None, metadatas |-> m]
        ELSE [exc |-> FALSE, index |-> IF ix = None THEN IndexFlatL2(d) ELSE ix,
              metadatas |-> m]

\* The whole of _load: the two loads are independent, then a missing index is
\* replaced by a fresh flat L2 index, which needs faiss.
_load(fIdx, fMeta, fa, d) ==
    LET ix == LoadIndex(fIdx, fa)
        m == LoadMeta(fMeta)
    IN  IF ix = None
        THEN IF ~fa
             THEN [exc |-> TRUE, index |-> None, metadatas |-> m]
             ELSE [exc |-> FALSE, index |-> IndexFlatL2(d), metadatas |-> m]
        ELSE [exc |-> FALSE, index |-> ix, metadatas |-> m]

\* What the load of each file came to, as the history records it.
ReadOutcome(f, usable) ==
    IF ~(exists(f) /\ usable) THEN "na"
    ELSE IF f.kind = Valid THEN "ok" ELSE "fail"

\* lastOp: the call, its remove_files / top_k argument, the outcome of its
\* index-file and metadata-file operation, and whether it is a reset that
\* directly follows a reset with the same argument.
NoCall == [op |-> "none", r |-> FALSE, k |-> 0, a |-> "na", b |-> "na", twice |-> FALSE]
Call(op, a, b) == [NoCall EXCEPT !.op = op, !.a = a, !.b = b]

\* Retriever(index_path, meta_path, embed_model_name): __init__ then _load. An
\* exception leaves no object behind.
Construct ==
    \E d \in ModelDims :
        LET r == _load(indexFile, metaFile, faiss, d)
        IN  /\ pc' = IF r.exc THEN "failed" ELSE "up"
            /\ dim' = d
            /\ index' = IF r.exc THEN None ELSE r.index
            /\ metadatas' = IF r.exc THEN <<>> ELSE r.metadatas
            /\ raised' = r.exc
            /\ lastOp' = Call("construct",
                              ReadOutcome(indexFile, faiss),
                              ReadOutcome(metaFile, TRUE))
            /\ hits' = <<>>
            /\ results' = <<>>
            /\ added' = <<>>
            /\ clean' = (~r.exc /\ r.index = IndexFlatL2(d) /\ r.metadatas = <<>>)
            /\ saved' = IF /\ saved \in {"ok", "bad"}
                           /\ ~r.exc /\ d = dim
                           /\ r.index = index /\ r.metadatas = metadatas
                        THEN saved ELSE "no"
            /\ UNCHANGED <<faiss, indexFile, metaFile, cvars, hvars>>

\* ----------------------------------------------------------- Retriever.save
\* save without its try/except blocks: a failed write reaches the caller.
save_nocatch ==
    /\ pc = "up"
    /\ \E wI \in WriteOutcomes, wM \in WriteOutcomes :
        LET writes == faiss /\ index # None
            stopped == writes /\ wI # "ok"
        IN  /\ indexFile' = IF writes
                            THEN write_index(indexFile, index, wI)
                            ELSE indexFile
            /\ metaFile' = IF stopped THEN metaFile
                           ELSE json_dump(metaFile, metadatas, wM)
            /\ lastOp' = Call("save", wI, wM)
            /\ raised' = (stopped \/ wM # "ok")
    /\ hits' = <<>>
    /\ results' = <<>>
    /\ saved' = IF saved = "no" THEN "no"
                 ELSE IF lastOp'.a = "ok" /\ lastOp'.b = "ok" THEN "ok" ELSE "bad"
    /\ UNCHANGED <<faiss, pc, dim, index, metadatas, added, clean, cvars, hvars>>

save ==
    /\ pc = "up"
    /\ \E wI \in WriteOutcomes, wM \in WriteOutcomes :
        /\ indexFile' = IF faiss /\ index # None
                        THEN write_index(indexFile, index, wI)
                        ELSE indexFile
        /\ metaFile' = json_dump(metaFile, metadatas, wM)
        /\ lastOp' = Call("save", wI, wM)
    /\ raised' = FALSE
    /\ hits' = <<>>
    /\ results' = <<>>
    /\ saved' = IF saved = "no" THEN "no"
                 ELSE IF lastOp'.a = "ok" /\ lastOp'.b = "ok" THEN "ok" ELSE "bad"
    /\ UNCHANGED <<faiss, pc, dim, index, metadatas, added, clean, cvars, hvars>>

\* ---------------------------------------------------------- Retriever.reset
\* remove that leaves the file in place.
remove_kept(f, gone, out) == f

\* os.remove inside try/except, behind os.path.exists.
remove(f, gone, out) == IF exists(f) /\ out = "ok" THEN gone ELSE f

RemoveChoices(f, r) == IF r /\ exists(f) THEN RemoveOutcomes ELSE {"na"}

reset ==
    /\ pc = "up"
    /\ \E r \in BOOLEAN :
       \E rmI \in RemoveChoices(indexFile, r), rmM \in RemoveChoices(metaFile, r) :
        IF ~faiss
        THEN /\ raised' = TRUE
             /\ lastOp' = [Call("reset", "na", "na") EXCEPT !.r = r]
             /\ UNCHANGED <<index, metadatas, indexFile, metaFile, added, clean, saved>>
        ELSE /\ raised' = FALSE
             /\ index' = IndexFlatL2(dim)
             /\ metadatas' = <<>>
             /\ indexFile' = IF r THEN remove(indexFile, NoIndexFile, rmI) ELSE indexFile
             /\ metaFile' = IF r THEN remove(metaFile, NoMetaFile, rmM) ELSE metaFile
             /\ lastOp' = [Call("reset", rmI, rmM) EXCEPT
                               !.r = r,
                               !.twice = (lastOp.op = "reset" /\ lastOp.r = r /\ ~raised)]
             /\ added' = <<>>
             /\ clean' = TRUE
             /\ saved' = "no"
    /\ hits' = <<>>
    /\ results' = <<>>
    /\ UNCHANGED <<faiss, pc, dim, cvars, hvars>>

\* -------------------------------------------------- Retriever.add_documents
\* Records with the two fields filled from the wrong list.
Records_swapped(texts, sources) ==
    [i \in 1..(IF Len(texts) < Len(sources) THEN Len(texts) ELSE Len(sources)) |->
        [text |-> sources[i], source |-> texts[i]]]

\* for t, s in zip(texts, sources): self.metadatas.append({"text": t, "source": s})
Records(texts, sources) ==
    [i \in 1..(IF Len(texts) < Len(sources) THEN Len(texts) ELSE Len(sources)) |->
        [text |-> texts[i], source |-> sources[i]]]

\* AddDocs with the metadata loop run before index.add: a rejected batch has
\* already left its records behind.
AddDocs_meta_first(ix, metas, d, texts, sources) ==
    LET embeddings == encode(texts, d)
    IN  IF ~AddFits(ix, embeddings)
        THEN [exc |-> TRUE, index |-> ix, metadatas |-> metas \o Records(texts, sources)]
        ELSE [exc |-> FALSE, index |-> IndexAdd(ix, embeddings),
              metadatas |-> metas \o Records(texts, sources)]

\* The state add_documents leaves: index.add raises before anything is stored
\* when the embeddings do not have the index's dimension.
AddDocs(ix, metas, d, texts, sources) ==
    LET embeddings == encode(texts, d)
    IN  IF ~AddFits(ix, embeddings)
        THEN [exc |-> TRUE, index |-> ix, metadatas |-> metas]
        ELSE [exc |-> FALSE, index |-> IndexAdd(ix, embeddings),
              metadatas |-> metas \o Records(texts, sources)]

\* The argument pairs of one call: up to n chunks, each with its own source.
Batches(n) == UNION {[1..k -> Docs] : k \in 0..n}

\* add_documents followed by a write of both files.
add_documents_saving ==
    /\ pc = "up"
    /\ \E batch \in Batches(MaxBatch) :
       LET texts == [i \in 1..Len(batch) |-> batch[i][1]]
           sources == [i \in 1..Len(batch) |-> batch[i][2]]
       IN
        /\ Len(index.vecs) + Len(texts) <= MaxDocs
        /\ Len(metadatas) + Len(texts) <= MaxDocs
        /\ LET r == AddDocs(index, metadatas, dim, texts, sources)
           IN  /\ index' = r.index
               /\ metadatas' = r.metadatas
               /\ raised' = r.exc
               /\ added' = IF r.exc \/ ~clean THEN added
                           ELSE added \o batch
               /\ saved' = IF r.exc THEN saved ELSE "add"
               /\ indexFile' = write_index(indexFile, r.index, "ok")
               /\ metaFile' = json_dump(metaFile, r.metadatas, "ok")
        /\ lastOp' = Call("add", "na", "na")
    /\ hits' = <<>>
    /\ results' = <<>>
    /\ UNCHANGED <<faiss, pc, dim, clean, cvars, hvars>>

add_documents ==
    /\ pc = "up"
    /\ \E batch \in Batches(MaxBatch) :
       LET texts == [i \in 1..Len(batch) |-> batch[i][1]]
           sources == [i \in 1..Len(batch) |-> batch[i][2]]
       IN
        /\ Len(index.vecs) + Len(texts) <= MaxDocs
        /\ Len(metadatas) + Len(texts) <= MaxDocs
        /\ LET r == AddDocs(index, metadatas, dim, texts, sources)
           IN  /\ index' = r.index
               /\ metadatas' = r.metadatas
               /\ raised' = r.exc
               /\ added' = IF r.exc \/ ~clean THEN added
                           ELSE added \o batch
               /\ saved' = IF r.exc THEN saved ELSE "add"
        /\ lastOp' = Call("add", "na", "na")
    /\ hits' = <<>>
    /\ results' = <<>>
    /\ UNCHANGED <<faiss, pc, dim, indexFile, metaFile, clean, cvars, hvars>>

\* --------------------------------------------------------- Retriever.search
\* Collect without the `idx < 0` test: Python's list[-1] is the last element.
RECURSIVE Collect_noneg(_, _, _)
Collect_noneg(found, metas, j) ==
    IF j > Len(found) THEN <<>>
    ELSE LET score == found[j][1]
             idx == found[j][2]
             at == IF idx < 0 THEN Len(metas) + idx + 1 ELSE idx + 1
         IN  IF idx >= Len(metas) \/ at < 1
             THEN Collect_noneg(found, metas, j + 1)
             ELSE <<[score |-> score, text |-> metas[at].text,
                     source |-> metas[at].source]>>
                  \o Collect_noneg(found, metas, j + 1)

\* The loop over zip(D[0], I[0]): a position outside the metadata list is
\* skipped, any other gives one result.
RECURSIVE Collect(_, _, _)
Collect(found, metas, j) ==
    IF j > Len(found) THEN <<>>
    ELSE LET score == found[j][1]
             idx == found[j][2]
         IN  IF idx < 0 \/ idx >= Len(metas)
             THEN Collect(found, metas, j + 1)
             ELSE <<[score |-> score, text |-> metas[idx + 1].text,
                     source |-> metas[idx + 1].source]>>
                  \o Collect(found, metas, j + 1)

\* index.search asserts the query has the index's dimension. (It is asked for
\* top_k >= 1 only; FAISS rejects k <= 0 before it searches.)
SearchFits(ix, q_emb) == Len(q_emb) = ix.d

search ==
    /\ pc = "up"
    /\ \E query \in Queries, top_k \in 1..MaxTopK :
        LET q_emb == Embed(query, dim)
        IN  IF ~SearchFits(index, q_emb)
            THEN /\ raised' = TRUE
                 /\ hits' = <<>>
                 /\ results' = <<>>
                 /\ lastOp' = [Call("search", "na", "na") EXCEPT !.k = top_k]
            ELSE /\ raised' = FALSE
                 /\ hits' = IndexSearch(index, q_emb, top_k)
                 /\ results' = Collect(hits', metadatas, 1)
                 /\ lastOp' = [Call("search", "na", "na") EXCEPT !.k = top_k]
    /\ UNCHANGED <<faiss, pc, dim, index, metadatas, indexFile, metaFile,
                   added, clean, saved, cvars, hvars>>

\* ---------------------------------------------------------------- chunk_text
Min(a, b) == IF a < b THEN a ELSE b
Max(a, b) == IF a < b THEN b ELSE a

\* Python's s[a:b] on a sequence: a negative bound counts from the end, and
\* both bounds are clamped to 0..len(s).
Bound(n, L) == IF n < 0 THEN Max(n + L, 0) ELSE Min(n, L)

\* A slice that starts one character late.
Slice_late(s, a, b) == SubSeq(s, Bound(a, Len(s)) + 2, Bound(b, Len(s)))

Slice(s, a, b) == SubSeq(s, Bound(a, Len(s)) + 1, Bound(b, Len(s)))

\* str.replace(old, new) for old = "": new is put before every character and
\* after the last one.
RECURSIVE ReplaceEmpty(_, _)
ReplaceEmpty(s, new) ==
    IF s = <<>> THEN new
    ELSE new \o <<Head(s)>> \o ReplaceEmpty(Tail(s), new)

TextsUpTo(n) == UNION {[1..k -> Chars] : k \in 0..n}

\* The call chunk_text(text, chunk_size, overlap) is made.
ChunkCall ==
    /\ text \in TextsUpTo(MaxTextLen)
    /\ chunk_size \in 1..MaxChunkSize
    /\ overlap \in 0..MaxChunkSize
    /\ start = 0
    /\ chunks = <<>>
    /\ cpc = "call"

\* `if not text: return []`, else the replace and the locals before the loop.
chunk_text_enter ==
    /\ cpc = "call"
    /\ IF text = <<>>
       THEN /\ cpc' = "done"
            /\ UNCHANGED text
       ELSE /\ text' = ReplaceEmpty(text, <<>>)
            /\ cpc' = "loop"
    /\ chunks' = <<>>
    /\ start' = 0
    /\ UNCHANGED <<chunk_size, overlap, rvars, hvars>>

\* One iteration of `while start < length`.
chunk_text_loop ==
    /\ cpc = "loop"
    /\ start < Len(text)
    /\ Len(chunks) < MaxChunks
    /\ LET length == Len(text)
           end == Min(start + chunk_size, length)
           chunk == Slice(text, start, end)
       IN  chunks' = Append(chunks, chunk)
    /\ start' = start + (chunk_size - overlap)
    /\ UNCHANGED <<text, chunk_size, overlap, cpc, rvars, hvars>>

\* The loop condition fails: `return chunks`.
chunk_text_return ==
    /\ cpc = "loop"
    /\ ~(start < Len(text))
    /\ cpc' = "done"
    /\ UNCHANGED <<text, chunk_size, overlap, start, chunks, rvars, hvars>>

\* ------------------------------------------------------------ the service
\* Request slots of the web application, and what a slot holds.
Reqs == {1, 2}

NoReq ==
    [kind |-> "none", at |-> "none",
     reset_index |-> FALSE, files |-> <<>>, k |-> 0, pending |-> <<>>,
     base |-> [vecs |-> <<>>, recs |-> <<>>], wI |-> "na", wM |-> "na",
     top_k |-> 0, hits |-> <<>>, results |-> <<>>]

WebIdle ==
    /\ req = [i \in Reqs |-> NoReq]
    /\ loop = 0

ChunkIdle ==
    /\ text = <<>>
    /\ chunk_size = 1
    /\ overlap = 0
    /\ start = 0
    /\ chunks = <<>>
    /\ cpc = "idle"

Init ==
    /\ faiss \in BOOLEAN
    /\ pc = "down"
    /\ dim = 0
    /\ index = None
    /\ metadatas = <<>>
    /\ indexFile = NoIndexFile
    /\ metaFile = NoMetaFile
    /\ lastOp = NoCall
    /\ raised = FALSE
    /\ hits = <<>>
    /\ results = <<>>
    /\ added = <<>>
    /\ clean = FALSE
    /\ saved = "no"
    /\ ChunkIdle
    /\ WebIdle

Next ==
    \/ Construct
    \/ save
    \/ reset
    \/ add_documents
    \/ search

Spec == Init /\ [][Next]_vars

\* chunk_text alone, called once on every bounded input; no Retriever exists.
RetrieverIdle ==
    /\ faiss = TRUE
    /\ pc = "down"
    /\ dim = 0
    /\ index = None
    /\ metadatas = <<>>
    /\ indexFile = NoIndexFile
    /\ metaFile = NoMetaFile
    /\ lastOp = NoCall
    /\ raised = FALSE
    /\ hits = <<>>
    /\ results = <<>>
    /\ added = <<>>
    /\ clean = FALSE
    /\ saved = "no"

InitChunk == RetrieverIdle /\ ChunkCall /\ WebIdle

NextChunk ==
    \/ chunk_text_enter
    \/ chunk_text_loop
    \/ chunk_text_return

SpecChunk == InitChunk /\ [][NextChunk]_vars

\* ------------------------------------------------- main.py: /upload and /ask
\* One Retriever, `retr`, is built when the module is imported and shared by
\* every request. Both handlers are coroutines (`async def`) that FastAPI runs
\* on the event loop; a coroutine gives the loop to another one only where it
\* awaits, and neither body contains an await.
MaxCorpus == 3      \* most entries an upload without reset grows the corpus to

\* The dimension of the model `retr` is built with (the default model_name).
DefaultDim == CHOOSE d \in ModelDims : \A e \in ModelDims : d <= e

\* Uploaded files: the name they are saved under and the chunks
\* parse_and_chunk_file returns for them (none for an empty file).
UploadA == [name |-> "a.txt", chunks |-> <<"t1">>]
UploadB == [name |-> "b.txt", chunks |-> <<"t2", "t3">>]
UploadE == [name |-> "e.txt", chunks |-> <<>>]

FileLists == {<<UploadA>>, <<UploadB, UploadA>>, <<UploadA, UploadE>>}

\* Positions of a handler at which its coroutine awaits: none.
AwaitPoints_each_step ==
    {"reset_index", "reset_metadatas", "reset_remove", "file", "append",
     "save_meta", "search", "collect"}

AwaitPoints == {}

\* The event loop is free, or the coroutine it runs has given it up.
LoopFree == IF loop = 0 THEN TRUE ELSE req[loop].at \in AwaitPoints

\* `if reset_index: retr.reset(remove_files=True)` is left out.
FirstStep_no_reset(r) == IF r.kind = "ask" THEN "search" ELSE "file"

\* Where a handler's body starts.
FirstStep(r) ==
    IF r.kind = "ask" THEN "search"
    ELSE IF r.reset_index THEN "reset_index" ELSE "file"

\* texts and [str(dest)] * len(texts) of one file, as add_documents stores them.
FileRecords(f) == Records(f.chunks, [j \in 1..Len(f.chunks) |-> f.name])

RECURSIVE RequestRecords(_, _)
RequestRecords(files, k) ==
    IF k > Len(files) THEN <<>>
    ELSE FileRecords(files[k]) \o RequestRecords(files, k + 1)

wkeep == <<faiss, pc, dim, lastOp, raised, hits, results, added, clean, saved, cvars>>

\* The event loop takes a POST /upload and schedules upload_files for it.
post_upload(i) ==
    /\ pc = "up"
    /\ LoopFree
    /\ req[i] = NoReq
    /\ \E reset_index \in BOOLEAN, files \in FileLists :
         req' = [req EXCEPT ![i] = [NoReq EXCEPT !.kind = "upload", !.at = "queued",
                                                 !.reset_index = reset_index,
                                                 !.files = files, !.k = 1]]
    /\ UNCHANGED <<index, metadatas, indexFile, metaFile, loop, wkeep>>

\* The event loop takes a POST /ask and schedules ask for it.
post_ask(i) ==
    /\ pc = "up"
    /\ LoopFree
    /\ req[i] = NoReq
    /\ \E top_k \in 1..MaxTopK :
         req' = [req EXCEPT ![i] = [NoReq EXCEPT !.kind = "ask", !.at = "queued",
                                                 !.top_k = top_k]]
    /\ UNCHANGED <<index, metadatas, indexFile, metaFile, loop, wkeep>>

\* The event loop runs request i's coroutine: it is free, or the coroutine it
\* was running awaits. A request that has not started enters its handler.
run(i) ==
    /\ req[i] # NoReq
    /\ loop # i
    /\ LoopFree
    /\ req[i].at = "queued" /\ req[i].kind = "upload" /\ ~req[i].reset_index =>
         LET n == Len(RequestRecords(req[i].files, 1))
         IN  Len(index.vecs) + n <= MaxCorpus /\ Len(metadatas) + n <= MaxCorpus
    /\ loop' = i
    /\ req' = IF req[i].at = "queued"
              THEN [req EXCEPT ![i].at = FirstStep(req[i]),
                               ![i].base = [vecs |-> index.vecs, recs |-> metadatas]]
              ELSE req
    /\ UNCHANGED <<index, metadatas, indexFile, metaFile, wkeep>>

\* retr.reset(remove_files=True), statement by statement.
upload_reset_index(i) ==
    /\ loop = i /\ req[i].at = "reset_index"
    /\ IF ~faiss
       THEN /\ req' = [req EXCEPT ![i] = NoReq]
            /\ loop' = 0
            /\ UNCHANGED index
       ELSE /\ index' = IndexFlatL2(dim)
            /\ req' = [req EXCEPT ![i].at = "reset_metadatas"]
            /\ UNCHANGED loop
    /\ UNCHANGED <<metadatas, indexFile, metaFile, wkeep>>

upload_reset_metadatas(i) ==
    /\ loop = i /\ req[i].at = "reset_metadatas"
    /\ metadatas' = <<>>
    /\ req' = [req EXCEPT ![i].at = "reset_remove"]
    /\ UNCHANGED <<index, indexFile, metaFile, loop, wkeep>>

upload_reset_remove(i) ==
    /\ loop = i /\ req[i].at = "reset_remove"
    /\ \E rmI \in RemoveChoices(indexFile, TRUE), rmM \in RemoveChoices(metaFile, TRUE) :
        /\ indexFile' = remove(indexFile, NoIndexFile, rmI)
        /\ metaFile' = remove(metaFile, NoMetaFile, rmM)
    /\ req' = [req EXCEPT ![i].at = "file"]
    /\ UNCHANGED <<index, metadatas, loop, wkeep>>

\* The next file is copied, parsed and chunked, and add_documents gets as far
\* as self.index.add: a batch it rejects ends the request with the exception.
upload_index_add(i) ==
    /\ loop = i /\ req[i].at = "file"
    /\ req[i].k <= Len(req[i].files)
    /\ LET f == req[i].files[req[i].k]
           embeddings == encode(f.chunks, dim)
       IN  IF ~AddFits(index, embeddings)
           THEN /\ req' = [req EXCEPT ![i] = NoReq]
                /\ loop' = 0
                /\ UNCHANGED index
           ELSE /\ index' = IndexAdd(index, embeddings)
                /\ req' = [req EXCEPT ![i].at = "append", ![i].pending = FileRecords(f)]
                /\ UNCHANGED loop
    /\ UNCHANGED <<metadatas, indexFile, metaFile, wkeep>>

\* One turn of add_documents' zip loop; after the last one, the next file.
upload_append(i) ==
    /\ loop = i /\ req[i].at = "append"
    /\ metadatas' = Append(metadatas, Head(req[i].pending))
    /\ req' = IF Len(req[i].pending) > 1
              THEN [req EXCEPT ![i].pending = Tail(@)]
              ELSE [req EXCEPT ![i].pending = <<>>, ![i].k = @ + 1, ![i].at = "file"]
    /\ UNCHANGED <<index, indexFile, metaFile, loop, wkeep>>

\* retr.save() after the last file: the index write, then the metadata write.
upload_save_index(i) ==
    /\ loop = i /\ req[i].at = "file"
    /\ req[i].k > Len(req[i].files)
    /\ \E wI \in WriteOutcomes :
        /\ indexFile' = IF faiss /\ index # None
                        THEN write_index(indexFile, index, wI)
                        ELSE indexFile
        /\ req' = [req EXCEPT ![i].at = "save_meta", ![i].wI = wI]
    /\ UNCHANGED <<index, metadatas, metaFile, loop, wkeep>>

\* The metadata write: save() has returned.
upload_save_meta(i) ==
    /\ loop = i /\ req[i].at = "save_meta"
    /\ \E wM \in WriteOutcomes :
        /\ metaFile' = json_dump(metaFile, metadatas, wM)
        /\ req' = [req EXCEPT ![i].at = "return", ![i].wM = wM]
    /\ UNCHANGED <<index, metadatas, indexFile, loop, wkeep>>

\* The handler returns its JSONResponse; the request is over.
respond(i) ==
    /\ loop = i /\ req[i].at = "return"
    /\ req' = [req EXCEPT ![i] = NoReq]
    /\ loop' = 0
    /\ UNCHANGED <<index, metadatas, indexFile, metaFile, wkeep>>

\* retr.search up to index.search.
ask_search(i) ==
    /\ loop = i /\ req[i].at = "search"
    /\ LET q_emb == Embed("q", dim)
       IN  IF ~SearchFits(index, q_emb)
           THEN /\ req' = [req EXCEPT ![i] = NoReq]
                /\ loop' = 0
           ELSE /\ req' = [req EXCEPT ![i].at = "collect",
                                      ![i].hits = IndexSearch(index, q_emb, req[i].top_k)]
                /\ UNCHANGED loop
    /\ UNCHANGED <<index, metadatas, indexFile, metaFile, wkeep>>

\* The loop of search over the returned positions: search has returned.
ask_collect(i) ==
    /\ loop = i /\ req[i].at = "collect"
    /\ req' = [req EXCEPT ![i].at = "return",
                          ![i].results = Collect(req[i].hits, metadatas, 1)]
    /\ UNCHANGED <<index, metadatas, indexFile, metaFile, loop, wkeep>>

\* The server process is started again: `retr` is rebuilt from the two files.
restart ==
    /\ pc = "up"
    /\ loop = 0
    /\ \A i \in Reqs : req[i] = NoReq
    /\ LET r == _load(indexFile, metaFile, faiss, dim)
       IN  /\ ~r.exc
           /\ index' = r.index
           /\ metadatas' = r.metadatas
    /\ UNCHANGED <<indexFile, metaFile, req, loop, wkeep>>

InitWeb ==
    /\ faiss = TRUE
    /\ pc = "up"
    /\ dim = DefaultDim
    /\ LET r == _load(NoIndexFile, NoMetaFile, faiss, dim)
       IN  index = r.index /\ metadatas = r.metadatas
    /\ indexFile = NoIndexFile
    /\ metaFile = NoMetaFile
    /\ lastOp = NoCall
    /\ raised = FALSE
    /\ hits = <<>>
    /\ results = <<>>
    /\ added = <<>>
    /\ clean = FALSE
    /\ saved = "no"
    /\ ChunkIdle
    /\ WebIdle

NextWeb ==
    \/ \E i \in Reqs : post_upload(i)
    \/ \E i \in Reqs : post_ask(i)
    \/ \E i \in Reqs : run(i)
    \/ \E i \in Reqs : upload_reset_index(i)
    \/ \E i \in Reqs : upload_reset_metadatas(i)
    \/ \E i \in Reqs : upload_reset_remove(i)
    \/ \E i \in Reqs : upload_index_add(i)
    \/ \E i \in Reqs : upload_append(i)
    \/ \E i \in Reqs : upload_save_index(i)
    \/ \E i \in Reqs : upload_save_meta(i)
    \/ \E i \in Reqs : respond(i)
    \/ \E i \in Reqs : ask_search(i)
    \/ \E i \in Reqs : ask_collect(i)
    \/ restart

SpecWeb == InitWeb /\ [][NextWeb]_vars

\* ===================================================================== claims

\* C1: from a freshly created empty Retriever, after any sequence of
\* add_documents calls with equal-length arguments, the index holds as many
\* vectors as there are metadata records, and the i-th record is the
\* {text, source} pair whose embedding is stored at position i.
C1_Lockstep ==
    (pc = "up" /\ clean) =>
        /\ Len(index.vecs) = Len(metadatas)
        /\ Len(metadatas) = Len(added)
        /\ \A i \in 1..Len(added) :
            /\ metadatas[i] = [text |-> added[i][1], source |-> added[i][2]]
            /\ index.vecs[i] = Embed(added[i][1], dim)

C1_Witness ==
    /\ pc = "up" /\ clean /\ lastOp.op = "add" /\ ~raised
    /\ Len(added) = 2
    /\ added[1][1] # added[2][1]
    /\ added[1][2] # added[2][2]

\* C2: right after construction, whatever the two persisted files hold, the
\* index size equals the number of metadata records (the two are loaded as one
\* unit).
C2_LoadedAsOneUnit ==
    (lastOp.op = "construct" /\ pc = "up") => Len(index.vecs) = Len(metadatas)

\* What search returns for (query, top_k) on a given index and metadata list.
Answer(ix, metas, d, query, k) == Collect(IndexSearch(ix, Embed(query, d), k), metas, 1)

SameAnswers(ix1, m1, ix2, m2, d) ==
    \A query \in Queries, k \in 1..MaxTopK :
        Answer(ix1, m1, d, query, k) = Answer(ix2, m2, d, query, k)

\* C3 (as stated): after add_documents followed by save(), a new Retriever
\* constructed from the same paths (with the same embedding model) has the
\* index contents and metadata list of the pre-save service, position for
\* position, and so gives the same search results.
C3_RoundTrip ==
    [][(saved \in {"ok", "bad"} /\ lastOp'.op = "construct" /\ dim' = dim) =>
            /\ pc' = "up"
            /\ index' = index
            /\ metadatas' = metadatas
            /\ SameAnswers(index', metadatas', index, metadatas, dim)]_vars

\* C3 (amended): the same, provided both writes of that save() succeed.
C3_RoundTripWhenWritten ==
    [][(saved = "ok" /\ lastOp'.op = "construct" /\ dim' = dim) =>
            /\ pc' = "up"
            /\ index' = index
            /\ metadatas' = metadatas
            /\ SameAnswers(index', metadatas', index, metadatas, dim)]_vars

C3_Witness ==
    /\ lastOp.op = "construct" /\ pc = "up"
    /\ lastOp.a = "ok" /\ lastOp.b = "ok"
    /\ saved = "ok"
    /\ Len(index.vecs) = 2 /\ Len(metadatas) = 2
    /\ metadatas[1] # metadatas[2]

\* C4 (as stated): reset(r) directly after reset(r) leaves the observable state
\* of the single reset(r): index size 0, metadata empty, the same files, and
\* both files absent when r is true; nothing is raised for a missing file.
C4_ResetIdempotent ==
    [][(lastOp.op = "reset" /\ ~raised /\ lastOp'.op = "reset" /\ lastOp'.r = lastOp.r) =>
            /\ ~raised'
            /\ index' = index /\ Len(index'.vecs) = 0
            /\ metadatas' = metadatas /\ metadatas' = <<>>
            /\ indexFile' = indexFile
            /\ metaFile' = metaFile
            /\ lastOp'.r => (~exists(indexFile') /\ ~exists(metaFile'))]_vars

\* C4 (amended): reset(r) directly after reset(r) leaves the in-memory state of
\* the single reset(r) (index size 0, metadata empty) and raises nothing for a
\* missing file; when r is true each file is absent unless its removal failed,
\* and each file is as the first reset left it unless the removal that failed
\* then succeeds now.
C4_ResetIdempotentBestEffort ==
    [][(lastOp.op = "reset" /\ ~raised /\ lastOp'.op = "reset" /\ lastOp'.r = lastOp.r) =>
            /\ ~raised'
            /\ index' = index /\ Len(index'.vecs) = 0
            /\ metadatas' = metadatas /\ metadatas' = <<>>
            /\ lastOp.a # "fail" => indexFile' = indexFile
            /\ lastOp.b # "fail" => metaFile' = metaFile
            /\ ~lastOp'.r => (indexFile' = indexFile /\ metaFile' = metaFile)
            /\ (lastOp'.r /\ lastOp'.a # "fail") => ~exists(indexFile')
            /\ (lastOp'.r /\ lastOp'.b # "fail") => ~exists(metaFile')]_vars

C4_Witness ==
    /\ lastOp.op = "reset" /\ lastOp.twice /\ lastOp.r /\ ~raised
    /\ lastOp.a = "ok" /\ lastOp.b = "na"
    /\ ~exists(indexFile) /\ ~exists(metaFile)
    /\ index.vecs = <<>> /\ metadatas = <<>>

\* The first / last n characters of a chunk (the whole chunk when it is shorter).
FirstN(s, n) == SubSeq(s, 1, Min(n, Len(s)))
LastN(s, n) == SubSeq(s, Max(1, Len(s) - n + 1), Len(s))

\* C5: chunk_text terminates for every input: with overlap >= chunk_size the
\* call is rejected, so the loop is never entered with a step that does not
\* advance.
C5_BadOverlapRejected ==
    cpc = "loop" => overlap < chunk_size

\* C6: for 0 <= overlap < chunk_size and a text longer than chunk_size, every
\* two consecutive chunks c[i], c[i+1] of which c[i+1] is not the last share
\* the boundary: the last `overlap` characters of c[i] are the first `overlap`
\* characters of c[i+1].
C6_OverlapShared ==
    (cpc = "done" /\ overlap < chunk_size /\ Len(text) > chunk_size) =>
        \A i \in 1..(Len(chunks) - 2) :
            LastN(chunks[i], overlap) = FirstN(chunks[i + 1], overlap)

\* C7: an index file that loads but whose dimension differs from self.dim is
\* discarded: construction ends with a fresh empty index of dimension self.dim.
C7_DimMismatchDiscarded ==
    (lastOp.op = "construct" /\ pc = "up" /\ lastOp.a = "ok" /\ indexFile.d # dim) =>
        index = IndexFlatL2(dim)

\* C8: construction raises exactly when faiss is unavailable; with faiss, an
\* absent or unreadable index file gives an empty index and an absent or
\* unparsable metadata file gives an empty metadata list.
C8_FailOpen ==
    lastOp.op = "construct" =>
        /\ raised <=> ~faiss
        /\ pc = (IF faiss THEN "up" ELSE "failed")
        /\ (faiss /\ indexFile.kind # Valid) => index = IndexFlatL2(dim)
        /\ (faiss /\ metaFile.kind # Valid) => metadatas = <<>>

C8_Witness ==
    /\ lastOp.op = "construct" /\ pc = "up" /\ ~raised
    /\ indexFile.kind = Corrupt /\ metaFile.kind = Corrupt
    /\ index.vecs = <<>> /\ metadatas = <<>>

\* The hits of the last search whose position has a metadata record.
Kept == {j \in 1..Len(hits) : hits[j][2] >= 0 /\ hits[j][2] < Len(metadatas)}
Rank(j) == Cardinality({i \in Kept : i <= j})

Ascending(rs) == \A a \in 1..Len(rs), b \in 1..Len(rs) : a < b => rs[a].score <= rs[b].score

\* C9: search never fails because of stale positions: a returned position that
\* is negative or >= the number of metadata records is skipped, every other
\* returned position gives exactly one result, and the results keep the
\* index's ascending-distance order.
C9_StaleSkipped ==
    lastOp.op = "search" =>
        /\ raised => index.d # dim
        /\ ~raised =>
            /\ Len(hits) = lastOp.k
            /\ Len(results) = Cardinality(Kept)
            /\ \A j \in Kept :
                results[Rank(j)] = [score |-> hits[j][1],
                                    text |-> metadatas[hits[j][2] + 1].text,
                                    source |-> metadatas[hits[j][2] + 1].source]
            /\ Ascending(results)

C9_Witness ==
    /\ lastOp.op = "search" /\ ~raised
    /\ Len(results) = 1
    /\ \E j \in 1..Len(hits) : hits[j][2] >= Len(metadatas)
    /\ \E j \in 1..Len(hits) : hits[j][2] < 0

\* C10: with index and metadata in lockstep with n entries, search(query,
\* top_k) returns exactly min(top_k, n) results in ascending distance order and
\* never an error.
C10_TopK ==
    (lastOp.op = "search" /\ Len(index.vecs) = Len(metadatas)) =>
        /\ ~raised
        /\ Len(results) = Min(lastOp.k, Len(metadatas))
        /\ Ascending(results)

\* C10 on the states where the index has the model's dimension.
C10_TopKWhenDimsMatch ==
    (lastOp.op = "search" /\ Len(index.vecs) = Len(metadatas) /\ index.d = dim) =>
        /\ ~raised
        /\ Len(results) = Min(lastOp.k, Len(metadatas))
        /\ Ascending(results)

\* C11: an add_documents call whose embeddings do not have the index's
\* dimension fails with an error, and a failed call leaves the index and the
\* metadata list exactly as they were.
C11_RejectedAddChangesNothing ==
    [][lastOp'.op = "add" =>
            /\ index.d # dim => raised'
            /\ raised' => (index' = index /\ metadatas' = metadatas)]_vars

C11_Witness ==
    /\ lastOp.op = "add" /\ raised
    /\ index.d # dim
    /\ Len(index.vecs) = 1 /\ Len(metadatas) = 1

\* C12: save() never raises, whichever of its two writes fail, and never
\* changes the in-memory index or metadata list.
C12_SaveBestEffort ==
    [][lastOp'.op = "save" =>
            /\ ~raised'
            /\ pc' = "up"
            /\ index' = index
            /\ metadatas' = metadatas]_vars

C12_Witness ==
    /\ lastOp.op = "save" /\ ~raised
    /\ lastOp.a = "fail" /\ lastOp.b = "partial"
    /\ Len(index.vecs) = 2 /\ Len(metadatas) = 2

\* C13: add_documents leaves the persisted index file and the persisted
\* metadata file unchanged, so a Retriever constructed from the same paths
\* right after it loads what it would have loaded before it; a file gets new
\* content from save() only.
C13_OnlySaveWrites ==
    [][/\ lastOp'.op = "add" =>
            /\ indexFile' = indexFile
            /\ metaFile' = metaFile
            /\ \A d \in ModelDims :
                 _load(indexFile', metaFile', faiss, d) = _load(indexFile, metaFile, faiss, d)
       /\ (exists(indexFile') /\ indexFile' # indexFile) => lastOp'.op = "save"
       /\ (exists(metaFile') /\ metaFile' # metaFile) => lastOp'.op = "save"]_vars

C13_Witness ==
    /\ lastOp.op = "add" /\ ~raised
    /\ indexFile.kind = Valid /\ Len(indexFile.vecs) = 1
    /\ metaFile.kind = Valid /\ Len(metaFile.recs) = 1
    /\ Len(index.vecs) = 2 /\ Len(metadatas) = 2

\* The two persisted files describe the same entries: both are readable or
\* neither is, and record i of the metadata file is the text of vector i of
\* the index file.
FilesAgree ==
    /\ indexFile.kind = metaFile.kind
    /\ indexFile.kind = Valid =>
         /\ Len(indexFile.vecs) = Len(metaFile.recs)
         /\ \A i \in 1..Len(indexFile.vecs) :
              indexFile.vecs[i] = Embed(metaFile.recs[i].text, indexFile.d)

\* C15: after save() returns, the persisted index file and the persisted
\* metadata file describe the same entries, also when one of the two writes
\* fails.
C15_FilesAgreeAfterSave ==
    lastOp.op = "save" => FilesAgree

\* C16: with 0 <= overlap < chunk_size, every chunk of chunk_text's output
\* other than the last has exactly chunk_size characters.
C16_OnlyLastShort ==
    (cpc = "done" /\ overlap < chunk_size) =>
        \A i \in 1..(Len(chunks) - 1) : Len(chunks[i]) = chunk_size

\* A chunk without its first n characters; nothing when it has fewer than n.
DropFirst(c, n) == IF Len(c) < n THEN <<>> ELSE SubSeq(c, n + 1, Len(c))

\* The first chunk followed by every later chunk minus its first n characters.
RECURSIVE Rejoin(_, _, _)
Rejoin(cs, n, j) ==
    IF j > Len(cs) THEN <<>>
    ELSE (IF j = 1 THEN cs[1] ELSE DropFirst(cs[j], n)) \o Rejoin(cs, n, j + 1)

\* C19: for 0 <= overlap < chunk_size, every chunk of chunk_text's output is a
\* non-empty piece of the text of at most chunk_size characters, chunk j
\* (counted from 0) starts at offset j * (chunk_size - overlap), and the first
\* chunk followed by every later chunk minus its first `overlap` characters is
\* the text; an empty text gives no chunks.
C19_CoversText ==
    (cpc = "done" /\ overlap < chunk_size) =>
        /\ text = <<>> => chunks = <<>>
        /\ \A j \in 1..Len(chunks) :
             LET off == (j - 1) * (chunk_size - overlap)
             IN  /\ Len(chunks[j]) \in 1..chunk_size
                 /\ off + Len(chunks[j]) <= Len(text)
                 /\ chunks[j] = SubSeq(text, off + 1, off + Len(chunks[j]))
        /\ Rejoin(chunks, overlap, 1) = text

C19_Witness ==
    /\ cpc = "done"
    /\ chunk_size = 4 /\ overlap = 3
    /\ text = <<"a", "b", "b", "a", "b">>
    /\ Len(chunks) = 5
    /\ Len(chunks[4]) < overlap

\* Vector i is the embedding of record i's text, and record i carries the
\* source that was given with that text.
Paired(d, vecs, recs) ==
    /\ Len(vecs) = Len(recs)
    /\ \A i \in 1..Len(vecs) :
         /\ vecs[i] = Embed(recs[i].text, d)
         /\ <<recs[i].text, recs[i].source>> \in Docs

\* Memory and disk both hold vectors paired with their own records; the two
\* files are both there or both missing.
AllPaired ==
    /\ Paired(index.d, index.vecs, metadatas)
    /\ \/ indexFile.kind = Absent /\ metaFile.kind = Absent
       \/ /\ indexFile.kind = Valid /\ metaFile.kind = Valid
          /\ Paired(indexFile.d, indexFile.vecs, metaFile.recs)

\* The call read, wrote and removed every file it touched.
NoFileFailure(call) == call.a \notin {"fail", "partial"} /\ call.b \notin {"fail", "partial"}

\* Every result of the last search is the record that was added with the
\* vector at the hit's position.
HitsPaired ==
    (lastOp.op = "search" /\ ~raised) =>
        /\ Len(results) = Cardinality(Kept)
        /\ \A j \in Kept :
             LET r == results[Rank(j)]
                 v == index.vecs[hits[j][2] + 1]
             IN  /\ v = Embed(r.text, index.d)
                 /\ <<r.text, r.source>> \in Docs
                 /\ r.score = hits[j][1]

\* C18: in a run in which no file read, write or delete fails, every state
\* reached through construction, add_documents, save, reset and
\* re-construction keeps vectors and records paired (the start is paired and a
\* call without a file failure keeps it so), and in such a state each search
\* hit carries the text and source added with its vector.
C18_HitsPairedWithoutFileFailure ==
    /\ AllPaired
    /\ [][(AllPaired /\ NoFileFailure(lastOp')) => AllPaired']_vars
    /\ [](AllPaired => HitsPaired)

C18_Witness ==
    /\ lastOp.op = "search" /\ ~raised
    /\ AllPaired
    /\ indexFile.kind = Valid /\ index.vecs = indexFile.vecs
    /\ Len(metadatas) = 2 /\ metadatas[1].text = "t1"
    /\ Len(results) = 2 /\ results[1].text = "t2"

\* A handler is between two statements that change the index and the metadata
\* list as a pair: index.add done and the zip loop not finished, or reset's
\* index replaced and its metadata list not yet.
InProgress(r) == r.at \in {"append", "reset_metadatas"}

\* The handler's next statement reads the shared state: search's index.search
\* or its loop over the metadata list, or one of save's two writes.
Observes(r) ==
    \/ r.at \in {"search", "collect", "save_meta"}
    \/ r.at = "file" /\ r.k > Len(r.files)

\* C14: with /upload and /ask requests in flight together on the shared
\* Retriever, no search and no save takes a step while another request is
\* inside an add_documents (vectors added, records not yet all appended) or
\* inside a reset (index cleared, metadata not yet).
C14_Serialized ==
    [][\A j \in Reqs :
          (Observes(req[j]) /\ req'[j] # req[j]) =>
              \A i \in Reqs \ {j} : ~InProgress(req[i])]_vars

C14_Witness ==
    \E i \in Reqs, j \in Reqs :
        /\ req[i].kind = "upload" /\ req[i].at = "append"
        /\ Len(index.vecs) > Len(metadatas)
        /\ req[j].kind = "ask" /\ req[j].at = "queued"

\* What an upload request leaves when it returns: the entries it started
\* from (none after a reset) followed by its files' chunks, file by file.
ExpectedRecs(r) ==
    (IF r.reset_index THEN <<>> ELSE r.base.recs) \o RequestRecords(r.files, 1)

ExpectedVecs(r) ==
    (IF r.reset_index THEN <<>> ELSE r.base.vecs)
        \o encode([j \in 1..Len(RequestRecords(r.files, 1)) |->
                       RequestRecords(r.files, 1)[j].text], dim)

InMemory(r) ==
    /\ metadatas = ExpectedRecs(r)
    /\ index.d = dim
    /\ index.vecs = ExpectedVecs(r)

Persisted(r) ==
    /\ metaFile.kind = Valid /\ metaFile.recs = ExpectedRecs(r)
    /\ indexFile.kind = Valid /\ indexFile.d = dim /\ indexFile.vecs = ExpectedVecs(r)

Returning(r) == r.kind = "upload" /\ r.at = "return"

\* C17 (as stated): when an /upload request completes successfully, memory and
\* the two files hold exactly this request's chunks (reset_index true), or the
\* earlier entries followed by them (reset_index false), in file order then
\* chunk order, each with its own file's path.
C17_UploadReplaces ==
    \A i \in Reqs : Returning(req[i]) => (InMemory(req[i]) /\ Persisted(req[i]))

\* C17 (amended): when an /upload request completes successfully, memory
\* holds exactly this request's chunks (reset_index true) or the earlier
\* entries followed by them (reset_index false), in file order then chunk
\* order, each with its own file's path; the two files hold the same when both
\* writes of save() were done.
C17_UploadReplacesWhenWritten ==
    \A i \in Reqs :
        Returning(req[i]) =>
            /\ InMemory(req[i])
            /\ (req[i].wI = "ok" /\ req[i].wM = "ok") => Persisted(req[i])

C17_Witness ==
    \E i \in Reqs :
        /\ Returning(req[i])
        /\ req[i].reset_index
        /\ req[i].files = <<UploadB, UploadA>>
        /\ req[i].base.recs # <<>>
        /\ req[i].wI = "ok" /\ req[i].wM = "ok"
        /\ Len(metadatas) = 3 /\ metadatas[3] = [text |-> "t1", source |-> "a.txt"]
        /\ metaFile.recs = metadatas

====
